---------------------------- MODULE Spec2Model ----------------------------
(***************************************************************************)
(* State-machine model of the rate-limited, cached reverse-geocoding      *)
(* service (services/geocoding.service.ts) and of the item search         *)
(* pipeline (components/items/items-browse.component.ts).                  *)
(*                                                                         *)
(* Strings are sequences of one-character strings.  Coordinates are       *)
(* integers counting 1e-5 degrees.  Time is counted in milliseconds.      *)
(***************************************************************************)
EXTENDS Integers, Sequences, FiniteSets, TLC

(***************************************************************************)
(* Bounds of the model.                                                    *)
(***************************************************************************)
MaxTasks == 3
MaxTicks == 4

(***************************************************************************)
(* Program constants.                                                      *)
(***************************************************************************)
DELAY_BETWEEN_REQUESTS == 1000

\* The clock advances in steps of half a drain interval.
TimeStep == DELAY_BETWEEN_REQUESTS \div 2
MaxTime == MaxTicks * TimeStep

\* Coordinates count 1e-5 degrees: five decimals.
CoordDecimals == 5
Pow10(n) == 10 ^ n

(***************************************************************************)
(* Strings.                                                                *)
(***************************************************************************)
DigitChars == <<"0", "1", "2", "3", "4", "5", "6", "7", "8", "9">>
DigitChar(d) == DigitChars[d + 1]

RECURSIVE NatToStr(_)
NatToStr(n) ==
  IF n < 10 THEN <<DigitChar(n)>>
  ELSE NatToStr(n \div 10) \o <<DigitChar(n % 10)>>

\* The d low decimal digits of n, zero-padded on the left.
RECURSIVE FractionDigits(_, _)
FractionDigits(n, d) ==
  IF d = 0 THEN <<>>
  ELSE FractionDigits(n \div 10, d - 1) \o <<DigitChar(n % 10)>>

Abs(x) == IF x < 0 THEN -x ELSE x

\* Number.prototype.toFixed(d) of x/10^5, d <= 5: the sign is taken from x
\* before rounding (so a small negative value prints as "-0.0000"), the
\* magnitude is rounded to the nearest multiple of 10^-d, the larger one on a
\* tie.
ToFixed(x, d) ==
  LET unit == Pow10(CoordDecimals - d)
      n    == (Abs(x) + (unit \div 2)) \div unit
  IN  (IF x < 0 THEN <<"-">> ELSE <<>>)
        \o NatToStr(n \div Pow10(d)) \o <<".">> \o FractionDigits(n % Pow10(d), d)

CacheKey_FiveDecimals(lat, lon) == ToFixed(lat, 5) \o <<",">> \o ToFixed(lon, 5)

\* `${lat.toFixed(4)},${lon.toFixed(4)}`
CacheKey(lat, lon) == ToFixed(lat, 4) \o <<",">> \o ToFixed(lon, 4)

\* GeocodingService.formatCoordinates
formatCoordinates(lat, lon) ==
  LET latDir == IF lat >= 0 THEN "N" ELSE "S"
      lonDir == IF lon >= 0 THEN "E" ELSE "W"
  IN  ToFixed(Abs(lat), 2) \o <<"°", latDir, ",", " ">>
        \o ToFixed(Abs(lon), 2) \o <<"°", lonDir>>


(***************************************************************************)
(* String helpers used by the address formatter.                           *)
(***************************************************************************)
UpperChars == <<"A", "B", "C", "D", "E", "F", "G", "H", "I", "J", "K", "L", "M", "N", "O", "P", "Q", "R", "S", "T", "U", "V", "W", "X", "Y", "Z">>
LowerChars == <<"a", "b", "c", "d", "e", "f", "g", "h", "i", "j", "k", "l", "m", "n", "o", "p", "q", "r", "s", "t", "u", "v", "w", "x", "y", "z">>

LowerChar(c) ==
  IF \E i \in 1..Len(UpperChars) : UpperChars[i] = c
  THEN LowerChars[CHOOSE i \in 1..Len(UpperChars) : UpperChars[i] = c]
  ELSE c

\* String.prototype.toLowerCase
ToLowerCase(s) == [i \in 1..Len(s) |-> LowerChar(s[i])]

\* String.prototype.includes
Includes(s, sub) ==
  \E i \in 1..(Len(s) - Len(sub) + 1) : SubSeq(s, i, i + Len(sub) - 1) = sub

\* part.match(/^\d/)
StartsWithDigit(s) ==
  /\ Len(s) > 0
  /\ \E i \in 1..Len(DigitChars) : DigitChars[i] = s[1]

\* String.prototype.trim (the only white space of the model is the blank)
RECURSIVE TrimLeft(_)
TrimLeft(s) ==
  IF Len(s) > 0 /\ s[1] = " " THEN TrimLeft(Tail(s)) ELSE s

RECURSIVE TrimRight(_)
TrimRight(s) ==
  IF Len(s) > 0 /\ s[Len(s)] = " " THEN TrimRight(SubSeq(s, 1, Len(s) - 1)) ELSE s

Trim(s) == TrimRight(TrimLeft(s))

\* displayName.split(','): the segments between the commas, at least one.
RECURSIVE SplitFrom(_, _, _)
SplitFrom(s, i, cur) ==
  IF i > Len(s) THEN <<cur>>
  ELSE IF s[i] = "," THEN <<cur>> \o SplitFrom(s, i + 1, <<>>)
  ELSE SplitFrom(s, i + 1, Append(cur, s[i]))

SplitComma(s) == SplitFrom(s, 1, <<>>)

\* `${a}, ${b}`
JoinTwo(a, b) == a \o <<",", " ">> \o b

NoiseSouthAfrica == <<"s", "o", "u", "t", "h", " ", "a", "f", "r", "i", "c", "a">>
NoiseGauteng == <<"g", "a", "u", "t", "e", "n", "g">>
NoiseProvince == <<"p", "r", "o", "v", "i", "n", "c", "e">>
Ellipsis == <<".", ".", ".">>

(***************************************************************************)
(* GeocodingService.extractMicroLocation                                   *)
(***************************************************************************)
IsValidPart(p) == Len(p) > 0 /\ ~StartsWithDigit(p) /\ Len(p) > 2

IsMeaningfulPart(p) ==
  /\ Len(p) > 0
  /\ ~StartsWithDigit(p)
  /\ Len(p) > 2
  /\ ~Includes(ToLowerCase(p), NoiseSouthAfrica)
  /\ ~Includes(ToLowerCase(p), NoiseGauteng)
  /\ ~Includes(ToLowerCase(p), NoiseProvince)

\* The final fallback: the display name, truncated when it is too long.
TruncateDisplayName(displayName) ==
  IF Len(displayName) > 35
  THEN SubSeq(displayName, 1, 32) \o Ellipsis
  ELSE displayName

\* The "enhanced fallback" over the meaningful parts.
MeaningfulPair(parts, displayName) ==
  LET m == SelectSeq(parts, IsMeaningfulPart)
      n == Len(m)
      \* m[n-3] || m[n-2] and m[n-2] || m[n-1], zero-based; an index
      \* below zero reads undefined
      specific == IF n - 2 >= 1 THEN m[n - 2] ELSE m[n - 1]
      broader  == IF n - 1 >= 1 THEN m[n - 1] ELSE m[n]
  IN  IF Len(parts) >= 3 /\ n >= 2 /\ specific # broader
      THEN JoinTwo(specific, broader)
      ELSE TruncateDisplayName(displayName)

extractMicroLocation(displayName) ==
  LET raw   == SplitComma(displayName)
      parts == [i \in 1..Len(raw) |-> Trim(raw[i])]
  IN  IF Len(parts) >= 5
      THEN LET microLocation == parts[3]
               district      == parts[4]
               city          == parts[5]
           IN  IF IsValidPart(microLocation) /\ IsValidPart(city) /\ microLocation # city
               THEN JoinTwo(microLocation, city)
               ELSE IF IsValidPart(district) /\ IsValidPart(city) /\ district # city
               THEN JoinTwo(district, city)
               ELSE IF IsValidPart(microLocation) /\ Len(microLocation) > 5
               THEN microLocation
               ELSE IF IsValidPart(city)
               THEN city
               ELSE MeaningfulPair(parts, displayName)
      ELSE MeaningfulPair(parts, displayName)

(***************************************************************************)
(* GeocodingService.formatAddress.  A response is a record                 *)
(*   [hasAddress, address, hasDisplayName, display_name];                  *)
(* an address field that the provider left out is the empty string.        *)
(* The result is [threw, value]: reading a field of a missing address, or  *)
(* splitting a missing display_name, throws a TypeError.                   *)
(***************************************************************************)
FirstNonEmpty(a, b, c) == IF a # <<>> THEN a ELSE IF b # <<>> THEN b ELSE c

Returned(v) == [threw |-> FALSE, value |-> v]
Threw == [threw |-> TRUE, value |-> <<>>]

formatAddress_CityOnlyAfterMicro(response) ==
  IF ~response.hasAddress THEN Threw
  ELSE
    LET address == response.address
        microLocation == FirstNonEmpty(address.neighbourhood, address.hamlet, address.locality)
        district == FirstNonEmpty(address.district, address.subdistrict, address.city_district)
        suburb == FirstNonEmpty(address.suburb, address.quarter, <<>>)
        city == FirstNonEmpty(address.city, address.town, address.village)
        first == IF microLocation # <<>> THEN <<microLocation>>
                 ELSE IF district # <<>> THEN <<district>>
                 ELSE IF suburb # <<>> THEN <<suburb>>
                 ELSE <<>>
        addCity ==
          /\ city # <<>>
          /\ ~(\E i \in 1..Len(first) : first[i] = city)
          /\ \/ microLocation # <<>>
             \/ suburb = <<>>
        parts == IF addCity THEN Append(first, city) ELSE first
    IN  IF Len(parts) >= 2 THEN Returned(JoinTwo(parts[1], parts[2]))
        ELSE IF Len(parts) = 1 THEN Returned(parts[1])
        ELSE IF ~response.hasDisplayName THEN Threw
        ELSE Returned(extractMicroLocation(response.display_name))

formatAddress(response) ==
  IF ~response.hasAddress THEN Threw
  ELSE
    LET address == response.address
        microLocation == FirstNonEmpty(address.neighbourhood, address.hamlet, address.locality)
        district == FirstNonEmpty(address.district, address.subdistrict, address.city_district)
        suburb == FirstNonEmpty(address.suburb, address.quarter, <<>>)
        city == FirstNonEmpty(address.city, address.town, address.village)
        first == IF microLocation # <<>> THEN <<microLocation>>
                 ELSE IF district # <<>> THEN <<district>>
                 ELSE IF suburb # <<>> THEN <<suburb>>
                 ELSE <<>>
        addCity ==
          /\ city # <<>>
          /\ ~(\E i \in 1..Len(first) : first[i] = city)
          /\ \/ microLocation # <<>>
             \/ district # <<>>
             \/ (suburb # <<>> /\ suburb # city)
             \/ suburb = <<>>
        parts == IF addCity THEN Append(first, city) ELSE first
    IN  IF Len(parts) >= 2 THEN Returned(JoinTwo(parts[1], parts[2]))
        ELSE IF Len(parts) = 1 THEN Returned(parts[1])
        ELSE IF ~response.hasDisplayName THEN Threw
        ELSE Returned(extractMicroLocation(response.display_name))


(***************************************************************************)
(* Inputs of the geocoding model.                                          *)
(***************************************************************************)
\* Coordinates <<lat, lon>> in 1e-5 degrees.  CoordA and CoordB round to
\* the same 4-decimal key and to different 2-decimal fallback labels;
\* CoordC has a key of its own.
CoordA == <<-2620499, 2804730>>
CoordB == <<-2620501, 2804730>>
CoordC == <<-2574610, 2818810>>
Coords == {CoordA, CoordB, CoordC}

\* A latitude of 95 degrees: outside [-90, 90].
CoordPastPole == <<9500000, 2804730>>
AllCoords == Coords \cup {CoordPastPole}

NoAddress ==
    [neighbourhood |-> <<>>,
     suburb |-> <<>>,
     quarter |-> <<>>,
     district |-> <<>>,
     subdistrict |-> <<>>,
     locality |-> <<>>,
     hamlet |-> <<>>,
     city_district |-> <<>>,
     city |-> <<>>,
     town |-> <<>>,
     village |-> <<>>]

\* {address: {suburb: "Sandton", city: "Johannesburg"}, display_name: ...}
ResponseStructured ==
  [hasAddress |-> TRUE,
   address |->
    [neighbourhood |-> <<>>,
     suburb |-> <<"S", "a", "n", "d", "t", "o", "n">>,
     quarter |-> <<>>,
     district |-> <<>>,
     subdistrict |-> <<>>,
     locality |-> <<>>,
     hamlet |-> <<>>,
     city_district |-> <<>>,
     city |-> <<"J", "o", "h", "a", "n", "n", "e", "s", "b", "u", "r", "g">>,
     town |-> <<>>,
     village |-> <<>>],
   hasDisplayName |-> TRUE,
   display_name |-> <<"S", "a", "n", "d", "t", "o", "n", ",", " ", "J", "o", "h", "a", "n", "n", "e", "s", "b", "u", "r", "g">>]

\* A body of unexpected shape: no address object.
ResponseMalformed ==
  [hasAddress |-> FALSE,
   address |-> NoAddress,
   hasDisplayName |-> FALSE,
   display_name |-> <<>>]

\* What the provider can deliver for a request: a 2xx body ("ok",
\* "malformed") or an error (network failure, non-2xx status).
Outcomes == {"ok", "malformed", "error"}
BodyOf == [o \in Outcomes |-> IF o = "ok" THEN ResponseStructured ELSE ResponseMalformed]

\* The values of the pure functions on the inputs of the model.
KeyOf == [c \in AllCoords |-> CacheKey(c[1], c[2])]
FallbackOf == [c \in AllCoords |-> formatCoordinates(c[1], c[2])]
FormattedOf == [o \in Outcomes |-> formatAddress(BodyOf[o])]
Keys == {KeyOf[c] : c \in Coords}
FallbackLabels == {FallbackOf[c] : c \in Coords}

\* The lookup delivered a provider-derived address.
Succeeded(outcome) == outcome # "error" /\ ~FormattedOf[outcome].threw

(***************************************************************************)
(* State.                                                                  *)
(***************************************************************************)
VARIABLES
  cache,         \* GeocodingService.cache: key -> label
  requestQueue,  \* GeocodingService.requestQueue: the queued tasks
  isProcessing,  \* GeocodingService.isProcessing
  drainTimers,   \* pending setTimeout callbacks of processQueue: due times
  inFlight,      \* reverse lookups sent and not yet answered
  now,           \* the clock, in ms
  nextId,        \* history: number of the next task, in enqueue order
  started,       \* history: the tasks run so far, in order
  failedSeen,    \* history: some lookup has failed
  refined,       \* history: key -> label of the last lookup that succeeded
                 \*          since the cache was last cleared
  ret            \* history: the last call of a public operation

geoVars ==
  <<cache, requestQueue, isProcessing, drainTimers, inFlight, now, nextId,
    started, failedSeen, refined, ret>>

EmptyMap == [k \in {} |-> <<>>]

\* Map.prototype.set
MapSet(m, k, v) == [x \in (DOMAIN m) \cup {k} |-> IF x = k THEN v ELSE m[x]]

\* The fields of the service that queueing and draining touch.
Service ==
  [requestQueue |-> requestQueue, isProcessing |-> isProcessing,
   drainTimers |-> drainTimers, inFlight |-> inFlight, started |-> started]

\* Variants of processQueue with a slip, used to test the properties below.
\* The isProcessing flag is never set.
processQueue_NoFlag(s, t, f) ==
  IF s.isProcessing \/ Len(s.requestQueue) = 0 THEN s
  ELSE LET request == Head(s.requestQueue)
       IN  [s EXCEPT !.requestQueue = Tail(s.requestQueue),
                     !.inFlight = @ \cup {[id |-> request.id, coord |-> request.coord,
                                           cacheKey |-> request.cacheKey,
                                           startedAt |-> t]},
                     !.started = Append(@, [id |-> request.id, at |-> t,
                                            behind |-> Len(s.requestQueue) - 1,
                                            afterFailure |-> f]),
                     !.drainTimers = Append(@, t + DELAY_BETWEEN_REQUESTS)]

\* The drain timer is armed without a delay.
processQueue_NoDelay(s, t, f) ==
  IF s.isProcessing \/ Len(s.requestQueue) = 0 THEN s
  ELSE LET request == Head(s.requestQueue)
       IN  [s EXCEPT !.isProcessing = TRUE,
                     !.requestQueue = Tail(s.requestQueue),
                     !.inFlight = @ \cup {[id |-> request.id, coord |-> request.coord,
                                           cacheKey |-> request.cacheKey,
                                           startedAt |-> t]},
                     !.started = Append(@, [id |-> request.id, at |-> t,
                                            behind |-> Len(s.requestQueue) - 1,
                                            afterFailure |-> f]),
                     !.drainTimers = Append(@, t)]

\* The task is taken from the tail of the queue (pop instead of shift).
processQueue_Pop(s, t, f) ==
  IF s.isProcessing \/ Len(s.requestQueue) = 0 THEN s
  ELSE LET request == s.requestQueue[Len(s.requestQueue)]
       IN  [s EXCEPT !.isProcessing = TRUE,
                     !.requestQueue = SubSeq(s.requestQueue, 1, Len(s.requestQueue) - 1),
                     !.inFlight = @ \cup {[id |-> request.id, coord |-> request.coord,
                                           cacheKey |-> request.cacheKey,
                                           startedAt |-> t]},
                     !.started = Append(@, [id |-> request.id, at |-> t,
                                            behind |-> Len(s.requestQueue) - 1,
                                            afterFailure |-> f]),
                     !.drainTimers = Append(@, t + DELAY_BETWEEN_REQUESTS)]

\* The drain timer is armed only when more tasks are waiting.
processQueue_TimerIfMore(s, t, f) ==
  IF s.isProcessing \/ Len(s.requestQueue) = 0 THEN s
  ELSE LET request == Head(s.requestQueue)
       IN  [s EXCEPT !.isProcessing = TRUE,
                     !.requestQueue = Tail(s.requestQueue),
                     !.inFlight = @ \cup {[id |-> request.id, coord |-> request.coord,
                                           cacheKey |-> request.cacheKey,
                                           startedAt |-> t]},
                     !.started = Append(@, [id |-> request.id, at |-> t,
                                            behind |-> Len(s.requestQueue) - 1,
                                            afterFailure |-> f]),
                     !.drainTimers = IF Len(s.requestQueue) > 1
                                     THEN Append(@, t + DELAY_BETWEEN_REQUESTS)
                                     ELSE @]

(***************************************************************************)
(* GeocodingService.processQueue: when idle and the queue is not empty,    *)
(* take the head task, run it (the task sends its lookup) and arm the      *)
(* drain timer.  f: a lookup has failed before (history only).             *)
(***************************************************************************)
\* The drain timer is not armed.
processQueue_NoTimer(s, t, f) ==
  IF s.isProcessing \/ Len(s.requestQueue) = 0 THEN s
  ELSE LET request == Head(s.requestQueue)
       IN  [s EXCEPT !.isProcessing = TRUE,
                     !.requestQueue = Tail(s.requestQueue),
                     !.inFlight = @ \cup {[id |-> request.id, coord |-> request.coord,
                                           cacheKey |-> request.cacheKey,
                                           startedAt |-> t]},
                     !.started = Append(@, [id |-> request.id, at |-> t,
                                            behind |-> Len(s.requestQueue) - 1,
                                            afterFailure |-> f])]

processQueue(s, t, f) ==
  IF s.isProcessing \/ Len(s.requestQueue) = 0 THEN s
  ELSE LET request == Head(s.requestQueue)
       IN  [s EXCEPT !.isProcessing = TRUE,
                     !.requestQueue = Tail(s.requestQueue),
                     !.inFlight = @ \cup {[id |-> request.id, coord |-> request.coord,
                                           cacheKey |-> request.cacheKey,
                                           startedAt |-> t]},
                     !.started = Append(@, [id |-> request.id, at |-> t,
                                            behind |-> Len(s.requestQueue) - 1,
                                            afterFailure |-> f]),
                     !.drainTimers = Append(@, t + DELAY_BETWEEN_REQUESTS)]

\* GeocodingService.queueGeocodingRequest
queueGeocodingRequest(s, coord, cacheKey, id, t, f) ==
  processQueue(
    [s EXCEPT !.requestQueue =
        Append(@, [id |-> id, coord |-> coord, cacheKey |-> cacheKey])],
    t, f)

\* Variant of reverseGeocode that does not consult the cache.
reverseGeocode_NoCacheCheck(c, s, coord, id, t, f) ==
  [hit |-> FALSE, value |-> FallbackOf[coord],
   service |-> queueGeocodingRequest(s, coord, KeyOf[coord], id, t, f)]

\* GeocodingService.reverseGeocode: [hit, value, service]
reverseGeocode(c, s, coord, id, t, f) ==
  LET key == KeyOf[coord]
  IN  IF key \in DOMAIN c
      THEN [hit |-> TRUE, value |-> c[key], service |-> s]
      ELSE [hit |-> FALSE, value |-> FallbackOf[coord],
            service |-> queueGeocodingRequest(s, coord, key, id, t, f)]

\* Variant of performReverseGeocode without catchError: a failure reaches
\* the subscriber as an error.
performReverseGeocode_NoCatch(coord, outcome) ==
  IF outcome = "error" \/ FormattedOf[outcome].threw
  THEN [kind |-> "error", value |-> <<>>]
  ELSE [kind |-> "next", value |-> FormattedOf[outcome].value]

\* GeocodingService.performReverseGeocode: what the observable delivers to
\* its subscriber once the provider has answered.  map(formatAddress)
\* turns a body into a label; catchError turns an HTTP error, and an
\* exception thrown by formatAddress, into the fallback label.
performReverseGeocode(coord, outcome) ==
  IF outcome = "error" \/ FormattedOf[outcome].threw
  THEN [kind |-> "next", value |-> FallbackOf[coord]]
  ELSE [kind |-> "next", value |-> FormattedOf[outcome].value]

\* Variant of the subscriber that replaces the map instead of adding to it.
subscriber_Replace(c, cacheKey, delivered) ==
  IF delivered.kind = "next" THEN MapSet(EmptyMap, cacheKey, delivered.value) ELSE c

\* The subscriber of queueGeocodingRequest: next stores the label, error
\* only logs.
subscriber(c, cacheKey, delivered) ==
  IF delivered.kind = "next" THEN MapSet(c, cacheKey, delivered.value) ELSE c

\* GeocodingService.getCachedAddress: cache.get(key) || null
getCachedAddress(c, coord) ==
  LET key == KeyOf[coord]
  IN  IF key \in DOMAIN c /\ c[key] # <<>>
      THEN [found |-> TRUE, value |-> c[key]]
      ELSE [found |-> FALSE, value |-> <<>>]

\* GeocodingService.clearCache
clearCache(c) == EmptyMap

(***************************************************************************)
(* The item search pipeline: ItemsBrowseComponent.                         *)
(***************************************************************************)
itemsPerPage == 12

\* The delay of the debounce timer of the search field, in ms.
SearchDebounce == 300

\* Text-input events are spaced in steps of a sixth of the delay.
InputStep == SearchDebounce \div 6

\* The bounds of the search model.
MaxSearches == 2
MaxPage == 2
MaxBurst == 3

\* Places, <<lat, lon>> in 1e-5 degrees.
UserPosition == <<-2620410, 2804730>>
PretoriaPosition == <<-2574610, 2818810>>
RosebankPosition == <<-2614670, 2804360>>

LocationNotAvailable == <<"L", "o", "c", "a", "t", "i", "o", "n", " ", "n", "o", "t", " ", "a", "v", "a", "i", "l", "a", "b", "l", "e">>
AddressPretoria == <<"P", "r", "e", "t", "o", "r", "i", "a">>
AddressRosebank == <<"R", "o", "s", "e", "b", "a", "n", "k">>

\* Titles, descriptions and categories of the items.
TitleDrill == <<"D", "r", "i", "l", "l">>
TitleTent == <<"T", "e", "n", "t">>
TitleSaw == <<"S", "a", "w">>
DescriptionKit == <<"K", "i", "t">>
DescriptionCamp == <<"C", "a", "m", "p">>
DescriptionDrillBit == <<"D", "r", "i", "l", "l", " ", "b", "i", "t">>
CategoryTools == <<"T", "o", "o", "l", "s">>
CategoryCamping == <<"C", "a", "m", "p", "i", "n", "g">>
CategoryToolsLower == <<"t", "o", "o", "l", "s">>

\* The items of the catalog, as ItemsService.transformBackendItem delivers
\* them: an item without stored coordinates has latitude and longitude 0,
\* an item without an address has the placeholder location.
Item ==
  [id \in {1, 2, 3, 4} |->
     CASE id = 1 -> [id |-> 1, location |-> AddressPretoria,
                     latitude |-> PretoriaPosition[1], longitude |-> PretoriaPosition[2],
                     pricePerDay |-> 300, createdAt |-> 10,
                     title |-> TitleDrill, description |-> DescriptionKit,
                     category |-> CategoryTools]
       [] id = 2 -> [id |-> 2, location |-> AddressRosebank,
                     latitude |-> 0, longitude |-> 0,
                     pricePerDay |-> 100, createdAt |-> 30,
                     title |-> TitleTent, description |-> DescriptionCamp,
                     category |-> CategoryCamping]
       [] id = 3 -> [id |-> 3, location |-> LocationNotAvailable,
                     latitude |-> 0, longitude |-> 0,
                     pricePerDay |-> 200, createdAt |-> 20,
                     title |-> TitleSaw, description |-> DescriptionDrillBit,
                     category |-> CategoryToolsLower]
       [] id = 4 -> [id |-> 4, location |-> AddressRosebank,
                     latitude |-> 0, longitude |-> RosebankPosition[2],
                     pricePerDay |-> 400, createdAt |-> 40,
                     title |-> TitleTent, description |-> DescriptionCamp,
                     category |-> CategoryCamping]]

\* What the catalog can answer to getAllItems: lists of item ids.
Catalogs == {<<1, 2>>, <<3, 2, 1>>}

\* Answers with two items of one address, one of them on the equator.
RankingCatalogs == {<<4, 1, 2>>, <<3, 2, 1>>}

\* Free-text queries, location filters and sort options.
NoText == <<>>
QueryDrill == <<"d", "r", "i", "l", "l">>
LocationRose == <<"r", "o", "s", "e">>
Queries == {NoText, QueryDrill}
LocationFilters == {NoText, LocationRose}
SortOptions == {"distance_asc", "price_desc", "created_desc"}

\* The characters of a sort option.
SortText(sort) ==
  CASE sort = "distance_asc" -> <<"d", "i", "s", "t", "a", "n", "c", "e", "_", "a", "s", "c">>
    [] sort = "price_desc" -> <<"p", "r", "i", "c", "e", "_", "d", "e", "s", "c">>
    [] sort = "created_desc" -> <<"c", "r", "e", "a", "t", "e", "d", "_", "d", "e", "s", "c">>
    [] sort = "distance_desc" -> <<"d", "i", "s", "t", "a", "n", "c", "e", "_", "d", "e", "s", "c">>

DefaultFilters ==
  [category |-> NoText, priceMin |-> 0, priceMax |-> 1000, location |-> NoText]

\* The filter values a user can set in the filter form.
FilterChoices ==
  {[DefaultFilters EXCEPT !.location = l] : l \in LocationFilters}

\* What the forward-geocoding provider can deliver for an address.
ForwardOutcomes == {"found", "empty", "error"}

\* Where the provider finds an address.
ForwardPosition(address) ==
  IF address = AddressRosebank THEN RosebankPosition ELSE PretoriaPosition

\* calculateDistances.haversine, in metres, on the places of the model
\* (the values of the formula with R = 6371 km).
haversine(lat1, lon1, lat2, lon2) ==
  IF <<lat1, lon1>> = <<lat2, lon2>> THEN 0
  ELSE IF {<<lat1, lon1>>, <<lat2, lon2>>} = {UserPosition, PretoriaPosition} THEN 52836
  ELSE IF {<<lat1, lon1>>, <<lat2, lon2>>} = {UserPosition, RosebankPosition} THEN 6393
  ELSE 59017

\* The distance field of a candidate.
Finite(m) == [kind |-> "finite", m |-> m]
Infinity == [kind |-> "infinity", m |-> 0]
Undefined == [kind |-> "undefined", m |-> 0]
Waiting == [kind |-> "waiting", m |-> 0]

VARIABLES
  phase,            \* "constructed" before ngOnInit, "ready" after
  geoPending,       \* getCurrentPosition has not called back yet
  userLocation,     \* <<>> (null) or <<lat, lon>>
  searchQuery,
  filters,
  currentSort,
  currentPage,
  items,            \* the displayed page: [id, distance]
  totalItems,
  loading,
  searchTimers,     \* pending setTimeout callbacks: [remaining, current],
                    \* current iff this.searchTimeout holds the timer's id;
                    \* overtaken: the page was changed after the timer was set
  geocodeCache,     \* address -> [found, position]
  catalogRequests,  \* getAllItems requests not yet answered: [gen, active],
                    \* with the handler and the current page of the call
  rankings,         \* calculateDistances promises not yet resolved
  nextGen,          \* history: number of the next loadItems invocation
  newest,           \* history: the result applied by the latest-issued
                    \*          invocation among those that have completed
  sinceInput,       \* history: ms since the last event that armed the
                    \*          debounce timer (at most SearchDebounce)
  burst,            \* history: events that armed the debounce timer in the
                    \*          current or last debounce cycle (at most MaxBurst)
  lastApplied       \* history: the invocation whose result was applied
                    \*          last: [gen, by, page]

browseVars ==
  <<phase, geoPending, userLocation, searchQuery, filters, currentSort, currentPage,
    items, totalItems, loading, searchTimers, geocodeCache, catalogRequests,
    rankings, nextGen, newest, sinceInput, burst, lastApplied>>

\* The call of a pure function under examination: its arguments and, once
\* it has been applied, its result.
VARIABLE call

fnVars == <<call>>

NoFunctionCall == [fn |-> "none"]

vars == <<geoVars, browseVars, fnVars>>

clearTimeout_Keep(timers) == timers

\* clearTimeout(this.searchTimeout)
clearTimeout(timers) == {t \in timers : ~t.current}

\* this.searchTimeout = setTimeout(callback, delay)
setTimeout(timers, delay) ==
  {[t EXCEPT !.current = FALSE] : t \in timers}
    \cup {[remaining |-> delay, current |-> TRUE, overtaken |-> FALSE]}

restartDebounce_NoClear(timers) == setTimeout(timers, SearchDebounce)

\* onSearchInput / onRealTimeSearch: the pending timer is cleared and a new
\* one is set.
restartDebounce(timers) == setTimeout(clearTimeout(timers), SearchDebounce)

\* JavaScript truthiness of a string after trim().
NonBlank(s) == Len(Trim(s)) > 0

\* loadItems: hasActiveFilters
hasActiveFilters(q, f) ==
  \/ NonBlank(q)
  \/ NonBlank(f.category)
  \/ NonBlank(f.location)
  \/ f.priceMin > 0
  \/ f.priceMax < 1000

\* The next handler of loadItems: with active filters the location filter
\* is applied to the answer, with the filters read when the answer arrives.
filterItems(allItems, active, f) ==
  IF active /\ NonBlank(f.location)
  THEN SelectSeq(allItems,
         LAMBDA id : /\ Item[id].location # <<>>
                     /\ Includes(ToLowerCase(Item[id].location), ToLowerCase(f.location)))
  ELSE allItems

NeedsGeocode_AnyAddress(item) ==
  /\ item.location # <<>>
  /\ item.location # LocationNotAvailable

\* calculateDistances: the coordinates are missing or zero and the item
\* has an address worth geocoding.
NeedsGeocode(item) ==
  /\ item.latitude = 0 \/ item.longitude = 0
  /\ item.location # <<>>
  /\ item.location # LocationNotAvailable

\* calculateDistances: if (lat && lon) haversine else Infinity
distanceTo(origin, lat, lon) ==
  IF lat # 0 /\ lon # 0
  THEN Finite(haversine(origin[1], origin[2], lat, lon))
  ELSE Infinity

afterGeocode_FailureUnset(origin, item, outcome) ==
  IF outcome = "found"
  THEN distanceTo(origin, ForwardPosition(item.location)[1],
                  ForwardPosition(item.location)[2])
  ELSE Undefined

\* calculateDistances after await geocodeAddress(item.location): the
\* coordinates of the answer if there is one, else those of the item.
afterGeocode(origin, item, outcome) ==
  IF outcome = "found"
  THEN distanceTo(origin, ForwardPosition(item.location)[1],
                  ForwardPosition(item.location)[2])
  ELSE distanceTo(origin, item.latitude, item.longitude)

\* geocodeAddress answers from the cache when the cached value is truthy.
CachedPosition(gc, address) == address \in DOMAIN gc /\ gc[address].found

\* calculateDistances up to the first await of every item: the distance
\* of an item, or Waiting when a forward lookup has been sent for it.
startDistances_NoOriginCheck(cand, origin, gc) ==
  [i \in 1..Len(cand) |->
     LET item == Item[cand[i]]
     IN  IF NeedsGeocode(item)
         THEN IF CachedPosition(gc, item.location) /\ origin # <<>>
              THEN distanceTo(origin, gc[item.location].position[1],
                              gc[item.location].position[2])
              ELSE Waiting
         ELSE IF origin = <<>> THEN Infinity
              ELSE distanceTo(origin, item.latitude, item.longitude)]

startDistances(cand, origin, gc) ==
  [i \in 1..Len(cand) |->
     LET item == Item[cand[i]]
     IN  IF origin = <<>> THEN Undefined
         ELSE IF NeedsGeocode(item)
         THEN IF CachedPosition(gc, item.location)
              THEN distanceTo(origin, gc[item.location].position[1],
                              gc[item.location].position[2])
              ELSE Waiting
         ELSE distanceTo(origin, item.latitude, item.longitude)]

\* getSortField / getSortOrder
getSortField(sort) ==
  IF Includes(SortText(sort), <<"d", "i", "s", "t", "a", "n", "c", "e">>) THEN "distance"
  ELSE IF Includes(SortText(sort), <<"p", "r", "i", "c", "e">>) THEN "price"
  ELSE IF Includes(SortText(sort), <<"r", "a", "t", "i", "n", "g">>) THEN "rating"
  ELSE "created"

getSortOrder(sort) ==
  IF Includes(SortText(sort), <<"a", "s", "c">>) THEN "asc" ELSE "desc"

compareItems_NoInfinityCase(a, b, sort) ==
  LET sortField == getSortField(sort)
      comparison ==
        IF sortField = "distance"
        THEN IF a.distance = Undefined /\ b.distance = Undefined THEN 0
             ELSE IF a.distance = Undefined THEN 1
             ELSE IF b.distance = Undefined THEN -1
             ELSE a.distance.m - b.distance.m
        ELSE IF sortField = "price"
        THEN Item[a.id].pricePerDay - Item[b.id].pricePerDay
        ELSE IF sortField = "created"
        THEN Item[a.id].createdAt - Item[b.id].createdAt
        ELSE 0
  IN  IF getSortOrder(sort) = "asc" THEN comparison ELSE -comparison

\* The comparator of applySorting.
compareItems(a, b, sort) ==
  LET sortField == getSortField(sort)
      comparison ==
        IF sortField = "distance"
        THEN IF a.distance = Undefined /\ b.distance = Undefined THEN 0
             ELSE IF a.distance = Undefined THEN 1
             ELSE IF b.distance = Undefined THEN -1
             ELSE IF a.distance = Infinity /\ b.distance = Infinity THEN 0
             ELSE IF a.distance = Infinity THEN 1
             ELSE IF b.distance = Infinity THEN -1
             ELSE a.distance.m - b.distance.m
        ELSE IF sortField = "price"
        THEN Item[a.id].pricePerDay - Item[b.id].pricePerDay
        ELSE IF sortField = "created"
        THEN Item[a.id].createdAt - Item[b.id].createdAt
        ELSE 0
  IN  IF getSortOrder(sort) = "asc" THEN comparison ELSE -comparison

\* Array.prototype.sort: a stable sort, here by insertion.
RECURSIVE insertSorted(_, _, _)
insertSorted(sorted, x, sort) ==
  IF sorted = <<>> THEN <<x>>
  ELSE IF compareItems(sorted[Len(sorted)], x, sort) > 0
  THEN Append(insertSorted(SubSeq(sorted, 1, Len(sorted) - 1), x, sort),
              sorted[Len(sorted)])
  ELSE Append(sorted, x)

RECURSIVE applySorting(_, _)
applySorting(list, sort) ==
  IF list = <<>> THEN <<>>
  ELSE insertSorted(applySorting(SubSeq(list, 1, Len(list) - 1), sort),
                    list[Len(list)], sort)

Min(a, b) == IF a < b THEN a ELSE b

pageOf_FromNextPage(withDistance, sort, page) ==
  LET sortedItems == applySorting(withDistance, sort)
      startIndex == page * itemsPerPage
  IN  [items |-> SubSeq(sortedItems, startIndex + 1,
                        Min(startIndex + itemsPerPage, Len(sortedItems))),
       total |-> Len(sortedItems)]

\* The then-callback of calculateAndSetItems: sort, slice the current page.
pageOf(withDistance, sort, page) ==
  LET sortedItems == applySorting(withDistance, sort)
      startIndex == (page - 1) * itemsPerPage
  IN  [items |-> SubSeq(sortedItems, startIndex + 1,
                        Min(startIndex + itemsPerPage, Len(sortedItems))),
       total |-> Len(sortedItems)]

\* The candidates of a ranking with their distances.
withDistances(cand, dist) ==
  [i \in 1..Len(cand) |-> [id |-> cand[i], distance |-> dist[i]]]

Resolved(dist) == \A i \in 1..Len(dist) : dist[i] # Waiting


(***************************************************************************)
(* Actions of the geocoding service.                                       *)
(***************************************************************************)
NoCall == [op |-> "none", hit |-> FALSE, value |-> <<>>]

GeoInit ==
  /\ cache = EmptyMap
  /\ requestQueue = <<>>
  /\ isProcessing = FALSE
  /\ drainTimers = <<>>
  /\ inFlight = {}
  /\ now = 0
  /\ nextId = 1
  /\ started = <<>>
  /\ failedSeen = FALSE
  /\ refined = EmptyMap
  /\ ret = NoCall

SetService(s) ==
  /\ requestQueue' = s.requestQueue
  /\ isProcessing' = s.isProcessing
  /\ drainTimers' = s.drainTimers
  /\ inFlight' = s.inFlight
  /\ started' = s.started

\* A caller calls reverseGeocode(lat, lon).
ReverseGeocode(coord) ==
  LET r == reverseGeocode(cache, Service, coord, nextId, now, failedSeen)
  IN  /\ r.hit \/ nextId <= MaxTasks
      /\ SetService(r.service)
      /\ nextId' = IF r.hit THEN nextId ELSE nextId + 1
      /\ ret' = [op |-> "reverseGeocode", hit |-> r.hit, value |-> r.value]
      /\ UNCHANGED <<cache, now, failedSeen, refined>>
      /\ UNCHANGED <<browseVars, fnVars>>

\* The drain timer fires: isProcessing = false; processQueue().
DrainTimerFires(i) ==
  /\ drainTimers[i] <= now
  /\ SetService(
       processQueue(
         [Service EXCEPT !.isProcessing = FALSE,
                         !.drainTimers = SubSeq(drainTimers, 1, i - 1)
                                           \o SubSeq(drainTimers, i + 1, Len(drainTimers))],
         now, failedSeen))
  /\ UNCHANGED <<cache, now, nextId, failedSeen, refined, ret>>
  /\ UNCHANGED <<browseVars, fnVars>>

\* The provider answers lookup r, or the request fails.
LookupResponse(r, outcome) ==
  /\ cache' = subscriber(cache, r.cacheKey, performReverseGeocode(r.coord, outcome))
  /\ inFlight' = inFlight \ {r}
  /\ failedSeen' = (failedSeen \/ ~Succeeded(outcome))
  /\ refined' = IF Succeeded(outcome)
                THEN MapSet(refined, r.cacheKey, FormattedOf[outcome].value)
                ELSE refined
  /\ UNCHANGED <<requestQueue, isProcessing, drainTimers, now, nextId, started, ret>>
  /\ UNCHANGED <<browseVars, fnVars>>

\* A caller calls getCachedAddress(lat, lon).
GetCachedAddress(coord) ==
  LET r == getCachedAddress(cache, coord)
  IN  /\ ret' = [op |-> "getCachedAddress", hit |-> r.found, value |-> r.value]
      /\ UNCHANGED <<cache, requestQueue, isProcessing, drainTimers, inFlight, now,
                     nextId, started, failedSeen, refined>>
      /\ UNCHANGED <<browseVars, fnVars>>

\* A caller calls clearCache().
ClearCache ==
  /\ cache' = clearCache(cache)
  /\ refined' = EmptyMap
  /\ ret' = [op |-> "clearCache", hit |-> FALSE, value |-> <<>>]
  /\ UNCHANGED <<requestQueue, isProcessing, drainTimers, inFlight, now, nextId,
                 started, failedSeen>>
  /\ UNCHANGED <<browseVars, fnVars>>

\* Time passes.
Tick ==
  /\ now < MaxTime
  /\ now' = now + TimeStep
  /\ UNCHANGED <<cache, requestQueue, isProcessing, drainTimers, inFlight, nextId,
                 started, failedSeen, refined, ret>>
  /\ UNCHANGED <<browseVars, fnVars>>

\* Time passes, up to MaxTime and for as long as a drain timer is not due.
TimePasses ==
  /\ now < MaxTime \/ \E i \in 1..Len(drainTimers) : drainTimers[i] > now
  /\ now' = now + TimeStep
  /\ UNCHANGED <<cache, requestQueue, isProcessing, drainTimers, inFlight, nextId,
                 started, failedSeen, refined, ret>>
  /\ UNCHANGED <<browseVars, fnVars>>

GeoNext ==
  \/ \E coord \in Coords : ReverseGeocode(coord)
  \/ \E i \in 1..Len(drainTimers) : DrainTimerFires(i)
  \/ \E r \in inFlight, outcome \in Outcomes : LookupResponse(r, outcome)
  \/ \E coord \in Coords : GetCachedAddress(coord)
  \/ ClearCache
  \/ Tick


(***************************************************************************)
(* Actions of the search pipeline.                                         *)
(***************************************************************************)
BrowseInit ==
  /\ phase = "constructed"
  /\ geoPending = FALSE
  /\ userLocation = <<>>
  /\ searchQuery = NoText
  /\ filters = DefaultFilters
  /\ currentSort = "distance_asc"
  /\ currentPage = 1
  /\ items = <<>>
  /\ totalItems = 0
  /\ loading = FALSE
  /\ searchTimers = {}
  /\ geocodeCache = EmptyMap
  /\ catalogRequests = {}
  /\ rankings = {}
  /\ nextGen = 1
  /\ newest = [gen |-> 0, items |-> <<>>, total |-> 0]
  /\ sinceInput = SearchDebounce
  /\ burst = 0
  /\ lastApplied = [gen |-> 0, by |-> "none", page |-> 1]

\* loadItems, called by the handler `by`, given the query and filters it
\* reads and the current page it leaves: loading is set and a getAllItems
\* request is sent, which remembers the branch it was sent from.
LoadItems(q, f, by, page) ==
  /\ loading' = TRUE
  /\ catalogRequests' =
       catalogRequests
         \cup {[gen |-> nextGen, active |-> hasActiveFilters(q, f), by |-> by,
                 page |-> page]}
  /\ nextGen' = nextGen + 1

\* The then-callback of calculateAndSetItems for invocation gen.
ApplyResult(gen, by, cand, dist) ==
  LET result == pageOf(withDistances(cand, dist), currentSort, currentPage)
  IN  /\ items' = result.items
      /\ totalItems' = result.total
      /\ loading' = FALSE
      /\ newest' = IF gen > newest.gen
                   THEN [gen |-> gen, items |-> result.items, total |-> result.total]
                   ELSE newest
      /\ lastApplied' = [gen |-> gen, by |-> by, page |-> currentPage]

\* ngOnInit, with no category chosen on the landing page: ask for the
\* position, read the query parameters, load the items.
NgOnInit(hasGeolocation, paramSearch, paramLocation) ==
  /\ phase = "constructed"
  /\ phase' = "ready"
  /\ geoPending' = hasGeolocation
  /\ currentSort' = IF hasGeolocation THEN currentSort ELSE "created_desc"
  /\ searchQuery' = IF paramSearch # <<>> THEN paramSearch ELSE searchQuery
  /\ filters' = IF paramLocation # <<>>
                THEN [filters EXCEPT !.location = paramLocation]
                ELSE filters
  /\ LoadItems(searchQuery', filters', "init", currentPage)
  /\ UNCHANGED <<userLocation, currentPage, items, totalItems, searchTimers,
                 geocodeCache, rankings, newest, sinceInput, burst, lastApplied>>
  /\ UNCHANGED <<geoVars, fnVars>>

\* The success callback of getCurrentPosition.
GeolocationGranted ==
  /\ geoPending
  /\ geoPending' = FALSE
  /\ userLocation' = UserPosition
  /\ currentSort' = "distance_asc"
  /\ LoadItems(searchQuery, filters, "geolocation", currentPage)
  /\ UNCHANGED <<phase, searchQuery, filters, currentPage, items, totalItems,
                 searchTimers, geocodeCache, rankings, newest, sinceInput, burst,
                 lastApplied>>
  /\ UNCHANGED <<geoVars, fnVars>>

\* The error callback of getCurrentPosition.
GeolocationDenied ==
  /\ geoPending
  /\ geoPending' = FALSE
  /\ currentSort' = "created_desc"
  /\ UNCHANGED <<phase, userLocation, searchQuery, filters, currentPage, items,
                 totalItems, loading, searchTimers, geocodeCache, catalogRequests,
                 rankings, nextGen, newest, sinceInput, burst, lastApplied>>
  /\ UNCHANGED <<geoVars, fnVars>>

\* getAllItems answers request req with the list allItems: the next
\* handler filters by location and starts calculateDistances; when no
\* forward lookup is needed the result is applied at once.
CatalogResponse(req, allItems) ==
  LET cand == filterItems(allItems, req.active, filters)
      dist == startDistances(cand, userLocation, geocodeCache)
  IN  /\ catalogRequests' = catalogRequests \ {req}
      /\ IF Resolved(dist)
         THEN /\ ApplyResult(req.gen, req.by, cand, dist)
              /\ UNCHANGED rankings
         ELSE /\ rankings' = rankings
                   \cup {[gen |-> req.gen, by |-> req.by, cand |-> cand, dist |-> dist]}
              /\ UNCHANGED <<items, totalItems, loading, newest, lastApplied>>
      /\ UNCHANGED <<phase, geoPending, userLocation, searchQuery, filters, currentSort,
                     currentPage, searchTimers, geocodeCache, nextGen, sinceInput,
                     burst>>
      /\ UNCHANGED <<geoVars, fnVars>>

\* getAllItems fails: the error handler resets loading.
CatalogError(req) ==
  /\ catalogRequests' = catalogRequests \ {req}
  /\ loading' = FALSE
  /\ UNCHANGED <<phase, geoPending, userLocation, searchQuery, filters, currentSort,
                 currentPage, items, totalItems, searchTimers, geocodeCache, rankings,
                 nextGen, newest, sinceInput, burst, lastApplied>>
  /\ UNCHANGED <<geoVars, fnVars>>

\* The forward lookup of candidate i of ranking rk is answered: the
\* answer is cached by address, the candidate gets its distance, and when
\* it was the last one awaited the result is applied.
ForwardResponse(rk, i, outcome) ==
  LET address == Item[rk.cand[i]].location
      position == ForwardPosition(address)
      d == afterGeocode(userLocation, Item[rk.cand[i]], outcome)
      dist == [rk.dist EXCEPT ![i] = d]
  IN  /\ rk.dist[i] = Waiting
      /\ geocodeCache' =
           MapSet(geocodeCache, address,
                  IF outcome = "found"
                  THEN [found |-> TRUE, position |-> position]
                  ELSE [found |-> FALSE, position |-> <<>>])
      /\ IF Resolved(dist)
         THEN /\ ApplyResult(rk.gen, rk.by, rk.cand, dist)
              /\ rankings' = rankings \ {rk}
         ELSE /\ rankings' = (rankings \ {rk}) \cup {[rk EXCEPT !.dist = dist]}
              /\ UNCHANGED <<items, totalItems, loading, newest, lastApplied>>
      /\ UNCHANGED <<phase, geoPending, userLocation, searchQuery, filters, currentSort,
                     currentPage, searchTimers, catalogRequests, nextGen, sinceInput,
                     burst>>
      /\ UNCHANGED <<geoVars, fnVars>>

\* The user types in the search field: an empty value clears the pending
\* timer and searches at once, any other value restarts the debounce timer.
OnSearchInput(value) ==
  /\ phase = "ready"
  /\ searchQuery' = value
  /\ IF value = <<>>
     THEN /\ searchTimers' = clearTimeout(searchTimers)
          /\ currentPage' = 1
          /\ LoadItems(value, filters, "input", 1)
          /\ UNCHANGED <<sinceInput, burst>>
     ELSE /\ searchTimers' = restartDebounce(searchTimers)
          /\ sinceInput' = 0
          /\ burst' = IF searchTimers = {} THEN 1 ELSE Min(burst + 1, MaxBurst)
          /\ UNCHANGED <<currentPage, loading, catalogRequests, nextGen>>
  /\ UNCHANGED <<phase, geoPending, userLocation, filters, currentSort, items,
                 totalItems, geocodeCache, rankings, newest, lastApplied>>
  /\ UNCHANGED <<geoVars, fnVars>>

\* onRealTimeSearch restarts the debounce timer.
OnRealTimeSearch ==
  /\ phase = "ready"
  /\ searchTimers' = restartDebounce(searchTimers)
  /\ sinceInput' = 0
  /\ burst' = IF searchTimers = {} THEN 1 ELSE Min(burst + 1, MaxBurst)
  /\ UNCHANGED <<phase, geoPending, userLocation, searchQuery, filters, currentSort,
                 currentPage, items, totalItems, loading, geocodeCache, catalogRequests,
                 rankings, nextGen, newest, lastApplied>>
  /\ UNCHANGED <<geoVars, fnVars>>

\* dt ms pass.  A timer callback runs when its delay has elapsed: time does
\* not pass a timer that is due.
Elapse(dt) ==
  /\ searchTimers # {}
  /\ \A t \in searchTimers : dt <= t.remaining
  /\ searchTimers' = {[t EXCEPT !.remaining = t.remaining - dt] : t \in searchTimers}
  /\ sinceInput' = Min(sinceInput + dt, SearchDebounce)
  /\ UNCHANGED <<phase, geoPending, userLocation, searchQuery, filters, currentSort,
                 currentPage, items, totalItems, loading, geocodeCache, catalogRequests,
                 rankings, nextGen, newest, burst, lastApplied>>
  /\ UNCHANGED <<geoVars, fnVars>>

\* The callback of debounce timer t runs.
SearchTimeoutFires(t) ==
  /\ t \in searchTimers
  /\ t.remaining = 0
  /\ searchTimers' = searchTimers \ {t}
  /\ currentPage' = 1
  /\ LoadItems(searchQuery, filters, "debounce", 1)
  /\ UNCHANGED <<phase, geoPending, userLocation, searchQuery, filters, currentSort,
                 items, totalItems, geocodeCache, rankings, newest, sinceInput,
                 burst, lastApplied>>
  /\ UNCHANGED <<geoVars, fnVars>>

\* The user changes a structured filter.
OnFilterChange(f) ==
  /\ phase = "ready"
  /\ filters' = f
  /\ currentPage' = 1
  /\ LoadItems(searchQuery, f, "filter", 1)
  /\ UNCHANGED <<phase, geoPending, userLocation, searchQuery, currentSort, items,
                 totalItems, searchTimers, geocodeCache, rankings, newest, sinceInput,
                 burst, lastApplied>>
  /\ UNCHANGED <<geoVars, fnVars>>

\* The user picks a sort option.
OnSortChange(sort) ==
  /\ phase = "ready"
  /\ currentSort' = sort
  /\ currentPage' = 1
  /\ LoadItems(searchQuery, filters, "sort", 1)
  /\ UNCHANGED <<phase, geoPending, userLocation, searchQuery, filters, items,
                 totalItems, searchTimers, geocodeCache, rankings, newest, sinceInput,
                 burst, lastApplied>>
  /\ UNCHANGED <<geoVars, fnVars>>

\* The user picks a page.
OnPageChange(page) ==
  /\ phase = "ready"
  /\ currentPage' = page
  /\ searchTimers' = {[t EXCEPT !.overtaken = TRUE] : t \in searchTimers}
  /\ LoadItems(searchQuery, filters, "page", page)
  /\ UNCHANGED <<phase, geoPending, userLocation, searchQuery, filters, currentSort,
                 items, totalItems, geocodeCache, rankings, newest,
                 sinceInput, burst, lastApplied>>
  /\ UNCHANGED <<geoVars, fnVars>>

\* The user clicks the search button.
OnSearch ==
  /\ phase = "ready"
  /\ currentPage' = 1
  /\ LoadItems(searchQuery, filters, "button", 1)
  /\ UNCHANGED <<phase, geoPending, userLocation, searchQuery, filters, currentSort,
                 items, totalItems, searchTimers, geocodeCache, rankings, newest,
                 sinceInput, burst, lastApplied>>
  /\ UNCHANGED <<geoVars, fnVars>>

\* The user clears all filters.
ClearAllFilters ==
  /\ phase = "ready"
  /\ searchQuery' = NoText
  /\ filters' = DefaultFilters
  /\ currentSort' = "created_desc"
  /\ currentPage' = 1
  /\ LoadItems(NoText, DefaultFilters, "clear", 1)
  /\ UNCHANGED <<phase, geoPending, userLocation, items, totalItems, searchTimers,
                 geocodeCache, rankings, newest, sinceInput, burst, lastApplied>>
  /\ UNCHANGED <<geoVars, fnVars>>

\* The search pipeline with the handlers that search at once.
\* At most n invocations of loadItems have been made after the step.
WithinSearches(n) == nextGen' <= n + 1

BrowseNext ==
  \/ \E g \in BOOLEAN, q \in Queries, l \in LocationFilters : NgOnInit(g, q, l)
  \/ GeolocationGranted /\ WithinSearches(MaxSearches)
  \/ GeolocationDenied
  \/ \E req \in catalogRequests, allItems \in Catalogs : CatalogResponse(req, allItems)
  \/ \E req \in catalogRequests : CatalogError(req)
  \/ \E rk \in rankings, outcome \in ForwardOutcomes :
       \E i \in 1..Len(rk.cand) : ForwardResponse(rk, i, outcome)
  \/ OnSearchInput(NoText) /\ WithinSearches(MaxSearches)
  \/ \E f \in FilterChoices : OnFilterChange(f) /\ WithinSearches(MaxSearches)
  \/ \E sort \in SortOptions : OnSortChange(sort) /\ WithinSearches(MaxSearches)
  \/ \E page \in 1..MaxPage : OnPageChange(page) /\ WithinSearches(MaxSearches)
  \/ OnSearch /\ WithinSearches(MaxSearches)
  \/ ClearAllFilters /\ WithinSearches(MaxSearches)

\* Text input and the debounce timer on their clock: events InputStep apart.
DebounceNext ==
  \/ \E q \in Queries : NgOnInit(FALSE, q, NoText)
  \/ \E value \in Queries : OnSearchInput(value) /\ WithinSearches(MaxSearches)
  \/ OnRealTimeSearch
  \/ Elapse(InputStep)
  \/ \E t \in searchTimers : SearchTimeoutFires(t) /\ WithinSearches(MaxSearches)
  \/ \E req \in catalogRequests, allItems \in Catalogs : CatalogResponse(req, allItems)

\* The structured filters, the sort and the pager without geolocation: the
\* initial search and MaxSearches searches of the user.
TriggerNext ==
  \/ NgOnInit(FALSE, NoText, NoText)
  \/ \E f \in FilterChoices : OnFilterChange(f) /\ WithinSearches(MaxSearches + 1)
  \/ \E sort \in SortOptions : OnSortChange(sort) /\ WithinSearches(MaxSearches + 1)
  \/ \E page \in 1..MaxPage : OnPageChange(page) /\ WithinSearches(MaxSearches + 1)
  \/ ClearAllFilters /\ WithinSearches(MaxSearches + 1)
  \/ \E req \in catalogRequests, allItems \in Catalogs : CatalogResponse(req, allItems)

\* The geocoding service called with a coordinate out of range and with
\* one in range.
OutOfRangeNext ==
  \/ \E coord \in {CoordPastPole, CoordC} : ReverseGeocode(coord)
  \/ \E i \in 1..Len(drainTimers) : DrainTimerFires(i)
  \/ \E r \in inFlight, outcome \in Outcomes : LookupResponse(r, outcome)
  \/ \E coord \in {CoordPastPole, CoordC} : GetCachedAddress(coord)
  \/ Tick

\* The request queue with its drain timer, on a clock that does not stop
\* before a pending timer is due.
DrainNext ==
  \/ ReverseGeocode(CoordA)
  \/ \E i \in 1..Len(drainTimers) : DrainTimerFires(i)
  \/ \E r \in inFlight, outcome \in Outcomes : LookupResponse(r, outcome)
  \/ TimePasses

\* The pager next to the search field and its debounce timer.
PagingNext ==
  \/ NgOnInit(FALSE, NoText, NoText)
  \/ OnSearchInput(QueryDrill)
  \/ Elapse(InputStep)
  \/ \E t \in searchTimers : SearchTimeoutFires(t) /\ WithinSearches(MaxSearches + 1)
  \/ \E page \in 1..MaxPage : OnPageChange(page) /\ WithinSearches(MaxSearches + 1)
  \/ \E req \in catalogRequests, allItems \in Catalogs : CatalogResponse(req, allItems)

\* The ranking by distance once geolocation is granted, with forward lookups.
RankingNext ==
  \/ NgOnInit(TRUE, NoText, NoText)
  \/ GeolocationGranted /\ WithinSearches(MaxSearches)
  \/ \E req \in catalogRequests, allItems \in RankingCatalogs :
       CatalogResponse(req, allItems)
  \/ \E rk \in rankings, outcome \in ForwardOutcomes :
       \E i \in 1..Len(rk.cand) : ForwardResponse(rk, i, outcome)

\* The geocoding service on its own, and the search pipeline on its own.
Init == GeoInit /\ BrowseInit /\ call = NoFunctionCall

Spec == Init /\ [][GeoNext]_vars

SpecBrowse == Init /\ [][BrowseNext]_vars

SpecDebounce == Init /\ [][DebounceNext]_vars

SpecTriggers == Init /\ [][TriggerNext]_vars

SpecRanking == Init /\ [][RankingNext]_vars

SpecPaging == Init /\ [][PagingNext]_vars

SpecOutOfRange == Init /\ [][OutOfRangeNext]_vars

\* Time passes and a due drain timer runs its callback.
SpecDrain ==
  /\ Init /\ [][DrainNext]_vars
  /\ WF_vars(TimePasses)
  /\ WF_vars(\E i \in 1..Len(drainTimers) : DrainTimerFires(i))

(***************************************************************************)
(* The cache key as a function of the coordinate.                          *)
(***************************************************************************)
\* Latitudes up to KeyRange units (1e-5 degrees) around the bases, and
\* longitudes on both sides of a rounding boundary.  A value exactly half
\* way between two keys is left out: toFixed rounds the binary value, which
\* lies on one side or the other.
KeyRange == 7

KeyLatBases == {0, -2620500}

KeyLats ==
  {base + off : base \in KeyLatBases,
                off \in {o \in -KeyRange..KeyRange : Abs(o) % 10 # 5}}

KeyLons == {2804724, 2804726, 2804734, 2804736}

KeyCalls ==
  {[fn |-> "key", a |-> <<lat1, lon1>>, b |-> <<lat2, lon2>>, out |-> <<>>] :
     lat1 \in KeyLats, lon1 \in KeyLons, lat2 \in KeyLats, lon2 \in KeyLons}

KeyInit == GeoInit /\ BrowseInit /\ call \in KeyCalls

\* The key of both coordinates is computed.
KeyFor ==
  /\ call.out = <<>>
  /\ call' = [call EXCEPT !.out = <<CacheKey(call.a[1], call.a[2]),
                                    CacheKey(call.b[1], call.b[2])>>]
  /\ UNCHANGED <<geoVars, browseVars>>

KeyNext == KeyFor

SpecKey == KeyInit /\ [][KeyNext]_vars

(***************************************************************************)
(* applySorting as a function of the list and of the sort option.          *)
(***************************************************************************)
MaxSortLen == 4

\* The distances a candidate can carry into applySorting.
SortDistances == {Finite(1000), Finite(2000), Finite(3000), Infinity, Undefined}

\* The candidates are numbered in their original order.
SortLists ==
  UNION {{[i \in 1..n |-> [id |-> i, distance |-> d[i]]] : d \in [1..n -> SortDistances]} :
           n \in 0..MaxSortLen}

SortCalls ==
  {[fn |-> "sort", list |-> list, sort |-> sort, done |-> FALSE, out |-> <<>>] :
     list \in SortLists, sort \in {"distance_asc", "distance_desc"}}

SortInit == GeoInit /\ BrowseInit /\ call \in SortCalls

\* this.applySorting(itemsWithDistance) with this.currentSort() = call.sort
ApplySorting ==
  /\ ~call.done
  /\ call' = [call EXCEPT !.done = TRUE, !.out = applySorting(call.list, call.sort)]
  /\ UNCHANGED <<geoVars, browseVars>>

SortNext == ApplySorting

SpecSort == SortInit /\ [][SortNext]_vars

(***************************************************************************)
(* The filter step of loadItems as a function of the catalog answer, the   *)
(* search text and the filters.                                            *)
(***************************************************************************)
MaxCatalog == 3

\* The lists getAllItems can answer with.
CatalogLists == UNION {[1..n -> DOMAIN Item] : n \in 0..MaxCatalog}

\* The price ranges of the filter form: the default and two narrower ones.
PriceRanges == {<<0, 1000>>, <<150, 1000>>, <<0, 250>>}

FilterInputs ==
  {[category |-> c, priceMin |-> p[1], priceMax |-> p[2], location |-> l] :
     c \in {NoText, CategoryTools}, p \in PriceRanges, l \in LocationFilters}

FilterCalls ==
  {[fn |-> "filter", allItems |-> allItems, q |-> q, f |-> f,
    done |-> FALSE, out |-> <<>>] :
     allItems \in CatalogLists, q \in Queries, f \in FilterInputs}

FilterInit == GeoInit /\ BrowseInit /\ call \in FilterCalls

\* loadItems up to the call of calculateAndSetItems: the list it passes on.
FilterItems ==
  /\ ~call.done
  /\ call' = [call EXCEPT
                !.done = TRUE,
                !.out = filterItems(call.allItems,
                                    hasActiveFilters(call.q, call.f), call.f)]
  /\ UNCHANGED <<geoVars, browseVars>>

FilterNext == FilterItems

SpecFilter == FilterInit /\ [][FilterNext]_vars

(***************************************************************************)
(* The then-callback of calculateAndSetItems as a function of the ranked   *)
(* list and of the current page.                                           *)
(***************************************************************************)
MaxPageItems == 26

\* n candidates in the order of decreasing distance.
FarthestFirst(n) ==
  [i \in 1..n |-> [id |-> i, distance |-> Finite(100 * (n + 1 - i))]]

PageCalls ==
  {[fn |-> "page", list |-> FarthestFirst(n), sort |-> "distance_asc", page |-> page,
    done |-> FALSE, out |-> [items |-> <<>>, total |-> 0]] :
     n \in 0..MaxPageItems, page \in 1..(MaxPage + 1)}

PageInit == GeoInit /\ BrowseInit /\ call \in PageCalls

\* The then-callback with currentSort() = call.sort, currentPage() = call.page.
SetItems ==
  /\ ~call.done
  /\ call' = [call EXCEPT !.done = TRUE,
                          !.out = pageOf(call.list, call.sort, call.page)]
  /\ UNCHANGED <<geoVars, browseVars>>

PageNext == SetItems

SpecPage == PageInit /\ [][PageNext]_vars

(***************************************************************************)
(* formatAddress as a function of the provider's response.                 *)
(***************************************************************************)
MaxFields == 3

AddressFields ==
  {"neighbourhood", "hamlet", "locality", "district", "subdistrict",
   "city_district", "suburb", "quarter", "city", "town", "village"}

NameSandton == <<"S", "a", "n", "d", "t", "o", "n">>
NameJohannesburg == <<"J", "o", "h", "a", "n", "n", "e", "s", "b", "u", "r", "g">>

\* The addresses with at most MaxFields fields filled in.
FormatAddresses ==
  {a \in [AddressFields -> {<<>>, NameSandton, NameJohannesburg}] :
     Cardinality({f \in AddressFields : a[f] # <<>>}) <= MaxFields}

\* "12, Oak St, Rivonia, Sandton, Johannesburg, Gauteng, South Africa"
DisplayRivonia == <<"1", "2", ",", " ", "O", "a", "k", " ", "S", "t", ",", " ", "R", "i", "v", "o", "n", "i", "a", ",", " ", "S", "a", "n", "d", "t", "o", "n", ",", " ", "J", "o", "h", "a", "n", "n", "e", "s", "b", "u", "r", "g", ",", " ", "G", "a", "u", "t", "e", "n", "g", ",", " ", "S", "o", "u", "t", "h", " ", "A", "f", "r", "i", "c", "a">>
\* "12 Oak St, Rivonia, Sandton, Johannesburg, Gauteng, South Africa"
DisplayOakStreet == <<"1", "2", " ", "O", "a", "k", " ", "S", "t", ",", " ", "R", "i", "v", "o", "n", "i", "a", ",", " ", "S", "a", "n", "d", "t", "o", "n", ",", " ", "J", "o", "h", "a", "n", "n", "e", "s", "b", "u", "r", "g", ",", " ", "G", "a", "u", "t", "e", "n", "g", ",", " ", "S", "o", "u", "t", "h", " ", "A", "f", "r", "i", "c", "a">>
DisplayNames == {DisplayRivonia, DisplayOakStreet}

FormatCalls ==
  {[fn |-> "format",
    response |-> [hasAddress |-> TRUE, address |-> a,
                  hasDisplayName |-> TRUE, display_name |-> d],
    done |-> FALSE, out |-> Threw] :
     a \in FormatAddresses, d \in DisplayNames}

FormatInit == GeoInit /\ BrowseInit /\ call \in FormatCalls

\* this.formatAddress(response)
FormatAddress ==
  /\ ~call.done
  /\ call' = [call EXCEPT !.done = TRUE, !.out = formatAddress(call.response)]
  /\ UNCHANGED <<geoVars, browseVars>>

FormatNext == FormatAddress

SpecFormat == FormatInit /\ [][FormatNext]_vars

(***************************************************************************)
(* Properties of the reverse-geocoding service.                            *)
(***************************************************************************)

\* The lookups for key k that are queued or in flight.
PendingFor(k) ==
  Cardinality({i \in 1..Len(requestQueue) : requestQueue[i].cacheKey = k})
    + Cardinality({r \in inFlight : r.cacheKey = k})

\* C1: calls of reverseGeocode for one uncached key, made before the first
\* lookup for that key has completed, leave exactly one lookup for the key
\* queued or in flight.
C1_OneLookupPerKey == \A k \in Keys : PendingFor(k) <= 1

Ceil(a, b) == (a + b - 1) \div b

StartsIn(from, to) ==
  Cardinality({i \in 1..Len(started) : from <= started[i].at /\ started[i].at <= to})

\* C2: two consecutive tasks start at least DELAY_BETWEEN_REQUESTS apart,
\* and every window of duration T holds at most ceil(T / interval) + 1
\* task starts.
C2_RateBound ==
  /\ \A i \in 1..(Len(started) - 1) :
       started[i + 1].at - started[i].at >= DELAY_BETWEEN_REQUESTS
  /\ \A a \in 0..MaxTicks, n \in 0..MaxTicks :
       StartsIn(a * TimeStep, (a + n) * TimeStep)
         <= Ceil(n * TimeStep, DELAY_BETWEEN_REQUESTS) + 1

\* Three tasks have started, each exactly one interval after the one before.
C2_Witness ==
  /\ Len(started) >= 3
  /\ started[2].at - started[1].at = DELAY_BETWEEN_REQUESTS
  /\ started[3].at - started[2].at = DELAY_BETWEEN_REQUESTS

\* C3 as claimed: no two reverse lookups are in flight at the same time.
C3_NoParallelLookups == Cardinality(inFlight) <= 1

\* C3, amended: lookups may be in flight together (a response may take
\* longer than the drain interval), but any two lookups in flight together
\* were started at least DELAY_BETWEEN_REQUESTS apart.
C3_ParallelLookupsSpaced ==
  \A r1 \in inFlight, r2 \in inFlight :
    r1 # r2 => Abs(r1.startedAt - r2.startedAt) >= DELAY_BETWEEN_REQUESTS

\* Two lookups are in flight together.
C3_Witness == Cardinality(inFlight) >= 2

\* C5: tasks start in the order in which they were enqueued (task numbers
\* are given in enqueue order): the started tasks are in increasing order,
\* the waiting tasks are in increasing order, and every waiting task was
\* enqueued after every started one.
C5_Fifo ==
  /\ \A i \in 1..Len(started), j \in 1..Len(started) :
       i < j => started[i].id < started[j].id
  /\ \A i \in 1..Len(requestQueue), j \in 1..Len(requestQueue) :
       i < j => requestQueue[i].id < requestQueue[j].id
  /\ \A i \in 1..Len(started), j \in 1..Len(requestQueue) :
       started[i].id < requestQueue[j].id

\* A task started while another one was waiting behind it, and the one
\* behind it has started since.
C5_Witness ==
  \E i \in 1..Len(started) : started[i].behind >= 1 /\ Len(started) > i

\* C6: a failing lookup does not stop the drain: whenever the service is
\* in the processing state, or tasks are waiting, a drain timer is pending.
C6_DrainContinues ==
  /\ isProcessing => Len(drainTimers) >= 1
  /\ Len(requestQueue) >= 1 => Len(drainTimers) >= 1

\* A task has started after a lookup had failed.
C6_Witness == \E i \in 1..Len(started) : started[i].afterFailure

\* What reverseGeocode returns when called now for coord.
ReturnedNow(coord) ==
  reverseGeocode(cache, Service, coord, nextId, now, failedSeen).value

\* C7: a call for an uncached key returns the fallback label of its
\* coordinate, and a call made after a lookup for the key has completed
\* successfully returns the refined label of that lookup.
C7_StaleWhileRevalidate ==
  \A coord \in Coords :
    /\ KeyOf[coord] \notin DOMAIN cache => ReturnedNow(coord) = FallbackOf[coord]
    /\ KeyOf[coord] \in DOMAIN refined => ReturnedNow(coord) = refined[KeyOf[coord]]

\* C8: a call of reverseGeocode for a cached key returns the cached label
\* and leaves the cache, the queue and the rest of the service unchanged.
C8_CachedCallIsPure ==
  [][\A coord \in Coords :
       (ReverseGeocode(coord) /\ KeyOf[coord] \in DOMAIN cache)
         => /\ ret'.value = cache[KeyOf[coord]]
            /\ UNCHANGED <<cache, requestQueue, isProcessing, drainTimers,
                           inFlight, started, nextId>>]_vars

\* The last call was a reverseGeocode answered from the cache.
C8_Witness == ret.op = "reverseGeocode" /\ ret.hit

C10_NeverEvicted == [][DOMAIN cache \subseteq DOMAIN cache']_vars

\* C10, amended: a key that is in the cache stays in the cache until
\* clearCache is called; no other operation and no background completion
\* removes an entry.
C10_EvictedOnlyByClearCache ==
  [][(DOMAIN cache \subseteq DOMAIN cache') \/ ClearCache]_vars

\* Both keys are cached: the first entry outlived the later operations.
C10_Witness == Cardinality(DOMAIN cache) = 2


(***************************************************************************)
(* Properties of the search pipeline.                                      *)
(***************************************************************************)
\* C4: the displayed items and total are those of the latest-issued search
\* invocation among the invocations that have applied a result: the result
\* of an older invocation never replaces the result of a newer one.
C4_StaleResponseDiscarded ==
  newest.gen > 0 => (items = newest.items /\ totalItems = newest.total)

(***************************************************************************)
(* Properties of the cache key.                                            *)
(***************************************************************************)
KeysComputed == call.fn = "key" /\ call.out # <<>>

\* Both values lie less than 0.00005 degrees (5 units) from one multiple
\* of 0.0001 degrees (10 units) and are on the same side of zero.
SameCell(x, y) ==
  /\ \E g \in {10 * n : n \in ((Min(x, y) \div 10) - 1)..((Min(x, y) \div 10) + 2)} :
       Abs(x - g) < 5 /\ Abs(y - g) < 5
  /\ (x < 0) = (y < 0)

\* C11 (as stated): two coordinates whose latitudes differ by less than
\* 0.00005 degrees and whose longitudes differ by less than 0.00005 degrees
\* have the same cache key.
C11_NearbySameKey ==
  (/\ KeysComputed
   /\ Abs(call.a[1] - call.b[1]) < 5
   /\ Abs(call.a[2] - call.b[2]) < 5)
  => call.out[1] = call.out[2]

\* C11 (amended): two coordinates whose latitudes lie less than 0.00005
\* degrees from the same multiple of 0.0001 degrees on the same side of
\* zero, and whose longitudes do likewise, have the same cache key.
C11_SameCellSameKey ==
  (/\ KeysComputed
   /\ SameCell(call.a[1], call.b[1])
   /\ SameCell(call.a[2], call.b[2]))
  => call.out[1] = call.out[2]

C11_Witness ==
  /\ KeysComputed
  /\ call.a[1] # call.b[1]
  /\ call.a[2] # call.b[2]
  /\ SameCell(call.a[1], call.b[1])
  /\ SameCell(call.a[2], call.b[2])
  /\ call.out[1] = call.out[2]

(***************************************************************************)
(* Properties of the debounced text input.                                 *)
(***************************************************************************)
\* The step dispatches a search from the handler `by`.
Dispatches(by) ==
  \E r \in catalogRequests' \ catalogRequests : r.by = by

\* C12: at most one debounce timer is pending at any time, and a burst of
\* text-input events less than 300 ms apart triggers one search: the
\* debounced search is issued when 300 ms have passed since the last event
\* of the burst, it is a single loadItems call, and no timer of the burst
\* is left to fire after it.
C12_DebounceCollapsing ==
  /\ [](Cardinality(searchTimers) <= 1)
  /\ [][Dispatches("debounce") =>
          /\ sinceInput = SearchDebounce
          /\ nextGen' = nextGen + 1
          /\ searchTimers' = {}]_vars

\* A debounced search has been issued for a burst of MaxBurst events.
C12_Witness ==
  /\ \E r \in catalogRequests : r.by = "debounce"
  /\ burst = MaxBurst
  /\ searchTimers = {}

\* C13: an input event with the empty string dispatches a search in the
\* same step and leaves no debounce timer pending.
C13_ClearSearchesAtOnce ==
  [][(searchQuery # NoText /\ searchQuery' = NoText) =>
       /\ Dispatches("input")
       /\ nextGen' = nextGen + 1
       /\ searchTimers' = {}]_vars

\* The field was cleared less than 300 ms after a text input armed the
\* timer: the search was dispatched and the timer is gone.
C13_Witness ==
  /\ \E r \in catalogRequests : r.by = "input"
  /\ searchQuery = NoText
  /\ burst >= 1
  /\ sinceInput < SearchDebounce
  /\ searchTimers = {}

(***************************************************************************)
(* Properties of the sort by distance.                                     *)
(***************************************************************************)
Sorted(sort) == call.fn = "sort" /\ call.done /\ call.sort = sort

HasFinite(c) == c.distance.kind = "finite"
HasInfinity(c) == c.distance = Infinity
HasUndefined(c) == c.distance = Undefined
NonFinite(c) == ~HasFinite(c)

\* Every candidate of the first kind stands before every one of the second.
Before(out, First(_), Second(_)) ==
  \A i, j \in 1..Len(out) : (First(out[i]) /\ Second(out[j])) => i < j

\* The finite distances do not decrease (sign = 1) or increase (sign = -1)
\* along the list.
FiniteInOrder(out, sign) ==
  \A i, j \in 1..Len(out) :
    (i < j /\ HasFinite(out[i]) /\ HasFinite(out[j]))
      => sign * out[i].distance.m <= sign * out[j].distance.m

\* The candidates of a kind keep their original relative order.
KeepsOrder(list, out, Kind(_)) == SelectSeq(out, Kind) = SelectSeq(list, Kind)

Filtered == call.fn = "filter" /\ call.done

MatchesText(id, q) ==
  \/ Includes(ToLowerCase(Item[id].title), ToLowerCase(q))
  \/ Includes(ToLowerCase(Item[id].description), ToLowerCase(q))

\* C16: when the search text is non-empty, every item of the search result
\* contains the text, case-insensitively, in its title or description.
C16_TextFilter ==
  (Filtered /\ call.q # NoText) =>
    \A i \in 1..Len(call.out) : MatchesText(call.out[i], call.q)

\* C17: with a category set every item of the result has that category
\* (case-insensitively), with a non-default price range every item of the
\* result has its price per day within the range, and with every field
\* empty or default no item is excluded.
C17_StructuredFilters ==
  Filtered =>
    /\ call.f.category # NoText =>
         \A i \in 1..Len(call.out) :
           ToLowerCase(Item[call.out[i]].category) = ToLowerCase(call.f.category)
    /\ (call.f.priceMin > 0 \/ call.f.priceMax < 1000) =>
         \A i \in 1..Len(call.out) :
           /\ Item[call.out[i]].pricePerDay >= call.f.priceMin
           /\ Item[call.out[i]].pricePerDay <= call.f.priceMax
    /\ (call.q = NoText /\ call.f = DefaultFilters) => call.out = call.allItems

(***************************************************************************)
(* Properties of the pagination.                                           *)
(***************************************************************************)
Max(a, b) == IF a > b THEN a ELSE b

\* C18: the items of page p are the elements of the sorted list (here the
\* list in reverse, nearest first) at the indices from (p-1)*pageSize up to,
\* not including, (p-1)*pageSize + pageSize, as far as the list goes, and
\* the total is the length of the whole list.
C18_PageSlice ==
  (call.fn = "page" /\ call.done) =>
    LET len == Len(call.list)
        start == (call.page - 1) * itemsPerPage
        count == Max(0, Min(itemsPerPage, len - start))
    IN  /\ Len(call.out.items) = count
        /\ \A k \in 1..count : call.out.items[k] = call.list[len + 1 - (start + k)]
        /\ call.out.total = len

\* A second page that is neither empty nor full.
C18_Witness ==
  /\ call.fn = "page" /\ call.done
  /\ call.page = 2
  /\ Len(call.out.items) > 0
  /\ Len(call.out.items) < itemsPerPage
  /\ call.out.total > itemsPerPage

(***************************************************************************)
(* Properties of the structured filters and of the sort.                   *)
(***************************************************************************)
FilterOrSortChanges == filters' # filters \/ currentSort' # currentSort

SearchesAtOnce ==
  [][FilterOrSortChanges =>
       /\ currentPage' = 1
       /\ nextGen' = nextGen + 1
       /\ searchTimers' = searchTimers]_vars

\* C19: a change of the structured filters or of the sort sets the current
\* page to 1 and dispatches a search in the same step, without the debounce
\* timer, and the search it dispatches computes page 1.
C19_FilterSearchComputesPageOne ==
  /\ SearchesAtOnce
  /\ [](lastApplied.by \in {"filter", "sort", "clear"} => lastApplied.page = 1)

(***************************************************************************)
(* Properties of the ranking without an origin.                            *)
(***************************************************************************)
\* C20: as long as no user location is available, every ranking gives
\* every candidate the distance unset: no distance is computed, no forward
\* geocoding request is sent (no ranking waits for one) and none has been
\* answered into the forward-geocoding cache.
C20_NoOriginNoDistance ==
  userLocation = <<>> =>
    /\ rankings = {}
    /\ geocodeCache = EmptyMap
    /\ \A i \in 1..Len(items) : items[i].distance = Undefined

\* Without a user location, a result is displayed that holds an item with
\* coordinates and an item that has only an address to geocode.
C20_Witness ==
  /\ userLocation = <<>>
  /\ lastApplied.gen > 0
  /\ \E i, j \in 1..Len(items) :
       /\ NeedsGeocode(Item[items[i].id])
       /\ ~NeedsGeocode(Item[items[j].id])
       /\ Item[items[j].id].latitude # 0
       /\ items[i].distance = Undefined
       /\ items[j].distance = Undefined

(***************************************************************************)
(* Properties of the forward lookups of a ranking.                         *)
(***************************************************************************)
AddressOf(rk, i) == Item[rk.cand[i]].location

\* The step applies the result of ranking rk.
Completes(rk) == rk \in rankings /\ \A r \in rankings' : r.gen # rk.gen

\* The step delivers the answer ranking rk waits for at candidate i.
Answered(rk, i) ==
  /\ rk \in rankings
  /\ rk.dist[i] = Waiting
  /\ \/ Completes(rk)
     \/ \E r \in rankings' : r.gen = rk.gen /\ r.dist[i] # Waiting

\* The lookup of the address has failed in this step.
FailsFor(address) ==
  /\ address \in DOMAIN geocodeCache'
  /\ ~geocodeCache'[address].found

\* C21: when a forward lookup fails, the candidate it was made for gets the
\* distance +infinity and the other candidates keep their distances; if it
\* was the last answer the ranking waited for, the result is sorted,
\* sliced for the current page and displayed, with the total of the
\* candidates and loading reset; no ranking is left with nothing to wait
\* for.
C21_ForwardFailureGivesInfinity ==
  /\ [](\A rk \in rankings : \E i \in 1..Len(rk.cand) : rk.dist[i] = Waiting)
  /\ [][\A rk \in rankings : \A i \in 1..Len(rk.cand) :
          (Answered(rk, i) /\ FailsFor(AddressOf(rk, i))) =>
             LET dist == [rk.dist EXCEPT ![i] = Infinity]
                 result == pageOf(withDistances(rk.cand, dist), currentSort, currentPage)
             IN  IF Completes(rk)
                 THEN /\ items' = result.items
                      /\ totalItems' = Len(rk.cand)
                      /\ ~loading'
                      /\ lastApplied'.gen = rk.gen
                 ELSE \E r \in rankings' : r.gen = rk.gen /\ r.dist = dist]_vars

\* A ranking with a candidate at a finite distance was displayed after a
\* forward lookup failed: the candidate of the failed lookup is shown at
\* +infinity, after the other.
C21_Witness ==
  /\ ~loading
  /\ lastApplied.gen > 0
  /\ \E a \in DOMAIN geocodeCache : ~geocodeCache[a].found
  /\ \E i, j \in 1..Len(items) :
       /\ i < j
       /\ items[i].distance.kind = "finite"
       /\ items[j].distance = Infinity
       /\ NeedsGeocode(Item[items[j].id])

\* The step starts ranking rk: the answer of getAllItems has arrived and
\* a forward lookup has been sent for every candidate that waits.
Starts(rk) == rk \in rankings' /\ \A r \in rankings : r.gen # rk.gen

\* C22: a ranking sends no forward lookup for an address whose lookup has
\* completed before, with coordinates or with a failure, and it sends at
\* most one lookup for the candidates that share an address.
C22_OneLookupPerAddress ==
  [][\A rk \in rankings' : Starts(rk) =>
       \A i, j \in 1..Len(rk.cand) :
         (rk.dist[i] = Waiting /\ rk.dist[j] = Waiting) =>
            /\ AddressOf(rk, i) \notin DOMAIN geocodeCache
            /\ AddressOf(rk, i) = AddressOf(rk, j) => i = j]_vars

(***************************************************************************)
(* Properties of the address formatter.                                    *)
(***************************************************************************)
Formatted == call.fn = "format" /\ call.done

\* The first non-empty field of a list of fields, or the empty string.
RECURSIVE FirstFilled(_, _)
FirstFilled(address, fields) ==
  IF fields = <<>> THEN <<>>
  ELSE IF address[Head(fields)] # <<>> THEN address[Head(fields)]
  ELSE FirstFilled(address, Tail(fields))

FirstPart(address) ==
  FirstFilled(address, <<"neighbourhood", "hamlet", "locality",
                         "district", "subdistrict", "city_district",
                         "suburb", "quarter">>)

Place(address) == FirstFilled(address, <<"city", "town", "village">>)

HasStructuredField(address) == \E f \in AddressFields : address[f] # <<>>

\* C23: the label starts with the first non-empty of neighbourhood, hamlet,
\* locality, else of district, subdistrict, city_district, else of suburb,
\* quarter; the city, town or village follows as second part when it
\* differs from the first part (alone it is the label); with any of these
\* fields filled in the label is made of them alone, whatever the display
\* name.
C23_StructuredPriority ==
  (Formatted /\ HasStructuredField(call.response.address)) =>
    LET address == call.response.address
        first == FirstPart(address)
        place == Place(address)
    IN  /\ ~call.out.threw
        /\ call.out.value =
             IF first = <<>> THEN place
             ELSE IF place # <<>> /\ place # first THEN first \o <<",", " ">> \o place
             ELSE first

\* {suburb: Sandton, city: Johannesburg} has been formatted as
\* "Sandton, Johannesburg".
C23_Witness ==
  /\ Formatted
  /\ call.response.address =
       [f \in AddressFields |->
          IF f = "suburb" THEN NameSandton
          ELSE IF f = "city" THEN NameJohannesburg ELSE <<>>]
  /\ call.out.value = NameSandton \o <<",", " ">> \o NameJohannesburg

\* The parts of a label: its segments between commas, trimmed.
LabelParts(label) ==
  LET raw == SplitComma(label) IN {Trim(raw[i]) : i \in 1..Len(raw)}

IsNoise(part) ==
  \/ Includes(ToLowerCase(part), NoiseSouthAfrica)
  \/ Includes(ToLowerCase(part), NoiseGauteng)
  \/ Includes(ToLowerCase(part), NoiseProvince)

\* C24: with no structured field, the display name "12, Oak St, Rivonia,
\* Sandton, Johannesburg, Gauteng, South Africa" is formatted as
\* "Rivonia, Sandton", and no part of a label parsed from a display name
\* is one of the noise tokens (Gauteng, South Africa, province).
C24_FreeTextFallback ==
  (Formatted /\ ~HasStructuredField(call.response.address)) =>
    /\ ~call.out.threw
    /\ call.response.display_name = DisplayRivonia =>
         call.out.value = <<"R", "i", "v", "o", "n", "i", "a", ",", " ", "S", "a", "n", "d", "t", "o", "n">>
    /\ \A part \in LabelParts(call.out.value) : ~IsNoise(part)

(***************************************************************************)
(* Properties of coordinates out of range.                                 *)
(***************************************************************************)
\* Latitude within [-90, 90] and longitude within [-180, 180].
InRange(coord) ==
  /\ -90 * Pow10(CoordDecimals) <= coord[1] /\ coord[1] <= 90 * Pow10(CoordDecimals)
  /\ -180 * Pow10(CoordDecimals) <= coord[2] /\ coord[2] <= 180 * Pow10(CoordDecimals)

\* C25: reverseGeocode called with a coordinate out of range returns the
\* fallback label of the raw values, and the cache never holds an entry
\* under the key of such a coordinate.
C25_OutOfRangeNeverCached ==
  /\ [](\A coord \in AllCoords : ~InRange(coord) => KeyOf[coord] \notin DOMAIN cache)
  /\ [][\A coord \in AllCoords :
          (~InRange(coord) /\ ReverseGeocode(coord)) => ret'.value = FallbackOf[coord]]_vars

(***************************************************************************)
(* Liveness of the request queue.                                          *)
(***************************************************************************)
Queued(id) == \E i \in 1..Len(requestQueue) : requestQueue[i].id = id
Started(id) == \E i \in 1..Len(started) : started[i].id = id
Idle == requestQueue = <<>> /\ ~isProcessing

\* C26: when time passes and due drain timers fire, every task in the
\* queue is eventually executed and the service is eventually idle for
\* good (queue empty, isProcessing false) once the calls that enqueue have
\* stopped; whenever tasks wait in the queue a drain is in progress
\* (isProcessing is true and a drain timer is pending).
C26_QueueLiveness ==
  /\ [](requestQueue # <<>> => isProcessing /\ drainTimers # <<>>)
  /\ \A id \in 1..MaxTasks : Queued(id) ~> Started(id)
  /\ <>[]Idle

\* All tasks have been executed, the last ones after waiting in the queue,
\* and the service is idle again.
C26_Witness ==
  /\ Idle
  /\ Len(started) = MaxTasks
  /\ started[MaxTasks].behind = 0
  /\ \E i \in 1..Len(started) : started[i].behind >= 1
  /\ drainTimers = <<>>

(***************************************************************************)
(* Quality of the cached labels.                                           *)
(***************************************************************************)
\* C27: a key cached with a label derived from the provider's address is
\* never given a coordinate-formatted fallback label afterwards.
C27_LabelNeverDegrades ==
  [][\A k \in DOMAIN cache :
       (cache[k] \notin FallbackLabels /\ k \in DOMAIN cache')
         => cache'[k] \notin FallbackLabels]_vars

(***************************************************************************)
(* Properties of the loading flag.                                         *)
(***************************************************************************)
\* A search is in flight: getAllItems has not answered it, or its ranking
\* waits for a forward lookup.
SearchInFlight == catalogRequests # {} \/ rankings # {}

\* C28: the loading flag is true whenever a search is in flight, also when
\* several overlap, and it is false once every search has completed or
\* failed.
C28_LoadingWhileInFlight == loading <=> SearchInFlight

(***************************************************************************)
(* Properties of the pager.                                                *)
(***************************************************************************)
\* The step applies the answer of getAllItems to request req.
Applies(req) ==
  /\ req \in catalogRequests
  /\ req \notin catalogRequests'
  /\ lastApplied'.gen = req.gen

\* C29: a debounce timer set by a text input before the page was changed
\* does not reset the page when it fires, and the answer to the latest
\* search, when no other was issued after it, is sliced for the page that
\* was current when it was requested.
C29_PageChangeStands ==
  /\ [][\A t \in searchTimers :
          (t.overtaken /\ SearchTimeoutFires(t)) => currentPage' = currentPage]_vars
  /\ [][\A req \in catalogRequests :
          (req.gen + 1 = nextGen /\ Applies(req)) => lastApplied'.page = req.page]_vars

(***************************************************************************)
(* Properties of the stored coordinates of a candidate.                    *)
(***************************************************************************)
\* The item came with coordinates: transformBackendItem delivers 0 and 0
\* for an item without them.
StoredCoordinates(item) == item.latitude # 0 \/ item.longitude # 0

\* Neither stored coordinate is zero.
NonZeroCoordinates(item) == item.latitude # 0 /\ item.longitude # 0

\* The haversine distance from the origin to the stored coordinates.
FromStored(item) ==
  Finite(haversine(userLocation[1], userLocation[2], item.latitude, item.longitude))

\* C30: when an origin is available, every candidate with stored
\* coordinates, a latitude or longitude of 0 included, gets the finite
\* haversine distance of those coordinates and triggers no forward lookup,
\* in a ranking under way and in the list displayed; only candidates
\* without stored coordinates wait for a lookup or get +infinity.
C30_StoredCoordinatesUsed ==
  /\ \A rk \in rankings : \A i \in 1..Len(rk.cand) :
       StoredCoordinates(Item[rk.cand[i]]) =>
          rk.dist[i] = FromStored(Item[rk.cand[i]])
  /\ \A i \in 1..Len(items) :
       (items[i].distance # Undefined /\ StoredCoordinates(Item[items[i].id])) =>
          items[i].distance = FromStored(Item[items[i].id])

\* C30, amended: when an origin is available, every candidate whose stored
\* latitude and longitude are both different from 0 gets the finite
\* haversine distance of those coordinates and triggers no forward lookup,
\* in a ranking under way and in the list displayed; only candidates
\* without stored coordinates, or with a latitude or longitude equal to 0,
\* wait for a lookup or get +infinity.
C30_NonZeroCoordinatesUsed ==
  /\ \A rk \in rankings : \A i \in 1..Len(rk.cand) :
       NonZeroCoordinates(Item[rk.cand[i]]) =>
          rk.dist[i] = FromStored(Item[rk.cand[i]])
  /\ \A i \in 1..Len(items) :
       (items[i].distance # Undefined /\ NonZeroCoordinates(Item[items[i].id])) =>
          items[i].distance = FromStored(Item[items[i].id])

\* A ranking is under way in which a candidate with non-zero stored
\* coordinates has its distance while a candidate stored on the equator
\* waits for a forward lookup.
C30_Witness ==
  \E rk \in rankings : \E i, j \in 1..Len(rk.cand) :
    /\ NonZeroCoordinates(Item[rk.cand[i]])
    /\ rk.dist[i] = FromStored(Item[rk.cand[i]])
    /\ StoredCoordinates(Item[rk.cand[j]])
    /\ ~NonZeroCoordinates(Item[rk.cand[j]])
    /\ rk.dist[j] = Waiting

=============================================================================
